---------------------------- MODULE Spec2Model ----------------------------
(***************************************************************************)
(* Model of nwam/finger-people: the motion-history filter (vision.MHI),    *)
(* the max-horizontal-blob locator (vision.MHB) and the sticky-output main *)
(* loop (finger_people.finger_people).                                     *)
(*                                                                         *)
(* Numbers.  Array cells hold exact rationals written as integers in units *)
(* of 1/Scale.  The smoothing factor alpha is a multiple of 1/AlphaDen, a  *)
(* power of two, so that every product and sum the code forms in float64   *)
(* is exact for the number of updates the model allows; Scale is chosen so *)
(* that the division by AlphaDen in each update leaves no remainder.       *)
(***************************************************************************)
EXTENDS Integers, Sequences, FiniteSets, TLC

VARIABLES
    \* ---- an MHI object (standalone, or the one an MHB owns)
    mhi,          \* MHI.mhi: the smoothed array [h, w, v]
    alpha,        \* MHI.alpha, as a numerator over AlphaDen
    dtype,        \* MHI.dtype: "float" or "uint8"
    ctor,         \* the constructor arguments [shape, dtype, alpha]
    fields,       \* the fields handed to update so far, in call order
    prev_mhi,     \* MHI.mhi as it was when the last update was called
    outcome,      \* how the last call ended: "none", "ok" or an exception name
    \* ---- an MHB object (it owns the MHI above)
    clip,         \* MHB.clip
    percentile,   \* MHB.percentile
    hmag,         \* MHB.hmag
    contour,      \* MHB.contour: a sequence of pixels, <<>> for None
    flow,         \* flow.mag and flow.ang as compute last read them
    filtered,     \* the mask compute last built: [h, w, fg]
    contours,     \* the list findContours last returned
    location,     \* the location compute last returned, <<>> if none
    intensity,    \* the intensity compute last returned
    \* ---- the finger_people main loop
    action, prev_label, enabled, loop_pc,
    sticky_i,     \* <<>> while the local is unassigned, <<n>> once it holds n
    preds,        \* the class ids predicted so far, one per processed frame
    done          \* the actions passed to game_input.do, one per processed frame

mhi_vars  == <<mhi, alpha, dtype, ctor, fields, prev_mhi, outcome>>
mhb_vars  == <<clip, percentile, hmag, contour, flow, filtered, contours,
               location, intensity>>
loop_vars == <<action, prev_label, sticky_i, enabled, loop_pc, preds, done>>
vars      == <<mhi_vars, mhb_vars, loop_vars>>

---------------------------------------------------------------------------
\* Bounds of the model.
MaxUpdates == 2      \* calls of MHI.update / MHB.compute in one behaviour
MaxCells   == 3      \* cells of an array handed to a standalone MHI
MaxVal     == 2      \* largest cell value of an input field
MaxFrames  == 4      \* frames the main loop processes
FrameH     == 6      \* rows of a video frame
FrameW     == 7      \* columns of a video frame
MaxClip    == 1      \* largest edge-clip margin
MaxMag     == 1      \* largest flow magnitude
GridH      == 5      \* rows of a mask handed to the blob search alone
GridW      == 5      \* columns of a mask handed to the blob search alone

\* alpha ranges over 0/AlphaDen .. AlphaDen/AlphaDen.
AlphaDen == 4
Alphas   == 0..AlphaDen
Scale    == AlphaDen ^ MaxUpdates

Abs(x) == IF x < 0 THEN -x ELSE x
Max(a, b) == IF a >= b THEN a ELSE b

---------------------------------------------------------------------------
\* numpy arrays of two dimensions: a shape and a value per cell (0-based).
Cells(h, w) == (0..(h - 1)) \X (0..(w - 1))
Shape(a) == <<a.h, a.w>>
Arr(h, w, f) == [h |-> h, w |-> w, v |-> f]

\* np.zeros(shape, dtype)
Zeros(shape) == Arr(shape[1], shape[2], [c \in Cells(shape[1], shape[2]) |-> 0])

\* numpy's broadcasting rule for one axis, and for a pair of 2-d shapes: two
\* extents are compatible when they are equal or one of them is 1.
AxisOk(m, n) == m = n \/ m = 1 \/ n = 1
AxisOut(m, n) == IF m = 1 THEN n ELSE m
Broadcastable(s, t) == AxisOk(s[1], t[1]) /\ AxisOk(s[2], t[2])
BroadcastShape(s, t) == <<AxisOut(s[1], t[1]), AxisOut(s[2], t[2])>>
\* the cell of `a` that cell c of the broadcast result reads
At(a, c) == a.v[<<IF a.h = 1 THEN 0 ELSE c[1], IF a.w = 1 THEN 0 ELSE c[2]>>]

\* alpha*frame + (1-alpha)*mhi for one cell (line 89).  SmoothNoDecay adds
\* the old state undecayed, SmoothSwapped exchanges the two weights.
SmoothNoDecay(a, x, h) == (a * x + AlphaDen * h) \div AlphaDen
SmoothSwapped(a, x, h) == ((AlphaDen - a) * x + a * h) \div AlphaDen
Smooth(a, x, h) == (a * x + (AlphaDen - a) * h) \div AlphaDen

\* .astype(dtype) of a non-negative float: float64 keeps it, uint8 drops
\* the fraction and keeps the low eight bits.
Cast(dt, x) == IF dt = "float" THEN x ELSE ((x \div Scale) % 256) * Scale

\* MHI.update: the new array, or the ValueError numpy raises when the two
\* shapes cannot be broadcast together (self.mhi is then left as it was).
MHI_update(state, a, dt, frame) ==
    IF Broadcastable(Shape(frame), Shape(state))
    THEN LET s == BroadcastShape(Shape(frame), Shape(state))
         IN [exc |-> "ok",
             mhi |-> Arr(s[1], s[2],
                        [c \in Cells(s[1], s[2]) |->
                            Cast(dt, Smooth(a, At(frame, c), At(state, c)))])]
    ELSE [exc |-> "ValueError", mhi |-> state]

---------------------------------------------------------------------------
\* The standalone motion-history filter.
Dtypes == {"float", "uint8"}
Shapes == {s \in (1..MaxCells) \X (1..MaxCells) : s[1] * s[2] <= MaxCells}
Fields(s) == {Arr(s[1], s[2], f) :
                f \in [Cells(s[1], s[2]) -> {x * Scale : x \in 0..MaxVal}]}

NoArr == Arr(0, 0, <<>>)
MHBIdle ==
    /\ clip = 0 /\ percentile = 0 /\ hmag = NoArr /\ contour = <<>>
    /\ flow = [mag |-> NoArr, ang |-> NoArr]
    /\ filtered = [h |-> 0, w |-> 0, fg |-> {}]
    /\ contours = <<>> /\ location = <<>> /\ intensity = 0

MHIIdle ==
    /\ mhi = Zeros(<<1, 1>>) /\ alpha = 0 /\ dtype = "float"
    /\ ctor = [shape |-> <<1, 1>>, dtype |-> "float", alpha |-> 0]
    /\ fields = <<>> /\ prev_mhi = mhi /\ outcome = "none"

LoopIdle ==
    /\ action = "None" /\ prev_label = "None" /\ sticky_i = <<>>
    /\ enabled = TRUE /\ loop_pc = "running" /\ preds = <<>> /\ done = <<>>

\* MHI.__init__(shape, dtype, alpha)
InitMHI ==
    /\ \E s \in Shapes, dt \in Dtypes, a \in Alphas :
          /\ mhi = Zeros(s)
          /\ alpha = a
          /\ dtype = dt
          /\ ctor = [shape |-> s, dtype |-> dt, alpha |-> a]
    /\ fields = <<>>
    /\ prev_mhi = mhi
    /\ outcome = "none"
    /\ MHBIdle
    /\ LoopIdle

\* MHI.update(frame)
Update ==
    /\ Len(fields) < MaxUpdates
    /\ \E s \in Shapes : \E frame \in Fields(s) :
          LET r == MHI_update(mhi, alpha, dtype, frame)
          IN /\ mhi' = r.mhi
             /\ outcome' = r.exc
             /\ prev_mhi' = mhi
             /\ fields' = Append(fields, frame)
    /\ UNCHANGED <<alpha, dtype, ctor, mhb_vars, loop_vars>>

NextMHI == Update
SpecMHI == InitMHI /\ [][NextMHI]_vars

\* The last field handed to update, and whether every field so far had the
\* shape the filter was constructed with.
LastField == fields[Len(fields)]
AllShaped == \A t \in 1..Len(fields) : Shape(fields[t]) = ctor.shape

\* H_t of the recurrence H_0 = 0, H_t = cast(alpha*X_t + (1-alpha)*H_(t-1)),
\* cell by cell, for the constructor's alpha and element type.
RECURSIVE Recurrence(_, _)
Recurrence(t, c) ==
    IF t = 0 THEN 0
    ELSE LET x == fields[t].v[c]
             h == Recurrence(t - 1, c)
             y == (ctor.alpha * x + (AlphaDen - ctor.alpha) * h) \div AlphaDen
         IN IF ctor.dtype = "float" THEN y ELSE ((y \div Scale) % 256) * Scale

\* C2: the state starts all zero and, after updates with fields of the
\* constructed shape, is H_n of the recurrence; update changes the state only.
C2_StateIsRecurrence ==
    /\ alpha = ctor.alpha
    /\ dtype = ctor.dtype
    /\ (AllShaped =>
          /\ Shape(mhi) = ctor.shape
          /\ \A c \in Cells(mhi.h, mhi.w) : mhi.v[c] = Recurrence(Len(fields), c))

\* two different fields were smoothed into an integer-typed state
C2_Witness ==
    /\ Len(fields) = 2 /\ AllShaped
    /\ fields[1] # fields[2]
    /\ dtype = "uint8" /\ alpha = 2
    /\ \E c \in Cells(mhi.h, mhi.w) :
          fields[1].v[c] = 2 * Scale /\ fields[2].v[c] = Scale /\ mhi.v[c] = Scale

\* distance of a cell of the state from the same cell of the last field
Dist(state, c) == Abs(state.v[c] - LastField.v[c])
Smoothed == fields # <<>> /\ outcome = "ok" /\ Shape(LastField) = Shape(prev_mhi)

C4_MismatchReported ==
    (fields # <<>> /\ Shape(LastField) # Shape(prev_mhi))
        => (outcome # "ok" /\ mhi = prev_mhi)

---------------------------------------------------------------------------
\* The max-horizontal-blob locator: the library calls MHB.compute makes.

\* The flow angles the model uses are those whose cosine float64 holds
\* exactly: 0 and pi.
Angles == {"0", "pi"}
Cos(a) == IF a = "0" THEN 1 ELSE -1

\* line 112: flow.mag * np.cos(flow.ang)**2
HorizontalMag(mag, ang) ==
    Arr(mag.h, mag.w,
        [c \in Cells(mag.h, mag.w) |-> mag.v[c] * Cos(ang.v[c]) * Cos(ang.v[c])])

\* The extent of the Python slice [k:-k] of an axis of n cells: a negative
\* stop counts from the end, and -0 is the stop 0.
SliceLen(n, k) ==
    LET start == IF k < n THEN k ELSE n
        stop  == IF k > 0 THEN Max(n - k, 0) ELSE 0
    IN Max(stop - start, 0)

\* line 113: hmag[clip:-clip, clip:-clip]
Crop(a, k) ==
    LET h2 == SliceLen(a.h, k)
        w2 == SliceLen(a.w, k)
    IN Arr(h2, w2, [c \in Cells(h2, w2) |-> a.v[<<c[1] + k, c[2] + k>>]])

\* The k-th smallest cell value of a (k counted from 0).
OrderStat(a, k) ==
    LET cs == Cells(a.h, a.w)
    IN CHOOSE x \in {a.v[c] : c \in cs} :
          /\ Cardinality({c \in cs : a.v[c] < x}) <= k
          /\ k < Cardinality({c \in cs : a.v[c] <= x})

\* lines 115-116: the cells whose value exceeds np.percentile(a, q), which
\* interpolates linearly between the two order statistics around the
\* position q/100 * (N-1).  Compared with both sides multiplied by 100.
Above(a, q) ==
    LET n   == a.h * a.w
        pos == q * (n - 1)
        lo  == pos \div 100
        fr  == pos % 100
        vlo == OrderStat(a, lo)
        vhi == OrderStat(a, IF lo + 1 < n THEN lo + 1 ELSE lo)
    IN {c \in Cells(a.h, a.w) : 100 * a.v[c] > 100 * vlo + fr * (vhi - vlo)}

\* ---- cv2.findContours(mask, RETR_LIST, CHAIN_APPROX_SIMPLE)
\* The eight neighbours of a pixel <<row, col>>, numbered counter-clockwise
\* from east as the chain code numbers them.
Dirs == << <<0, 1>>, <<-1, 1>>, <<-1, 0>>, <<-1, -1>>,
           <<0, -1>>, <<1, -1>>, <<1, 0>>, <<1, 1>> >>
Nb(p, k) == <<p[1] + Dirs[(k % 8) + 1][1], p[2] + Dirs[(k % 8) + 1][2]>>
DirTo(p, q) ==
    CHOOSE k \in 0..7 : Dirs[k + 1] = <<q[1] - p[1], q[2] - p[2]>>

\* the first pixel of a set in raster order
RasterFirst(S) ==
    CHOOSE p \in S : \A q \in S : p[1] < q[1] \/ (p[1] = q[1] /\ p[2] <= q[2])

\* the part of `region` connected to `frontier` by steps in the directions ks
RECURSIVE Grow(_, _, _, _)
Grow(seen, frontier, region, ks) ==
    LET new == ({Nb(p, k) : p \in frontier, k \in ks} \cap region) \ seen
    IN IF new = {} THEN seen ELSE Grow(seen \cup new, new, region, ks)

\* the connected parts of `region`: 8-connected for ks = 0..7, 4-connected
\* for ks = {0, 2, 4, 6}
RECURSIVE Components(_, _)
Components(region, ks) ==
    IF region = {} THEN {}
    ELSE LET p    == RasterFirst(region)
             comp == Grow({p}, {p}, region, ks)
         IN {comp} \cup Components(region \ comp, ks)

\* The holes of the mask: the 4-connected parts of the background that do
\* not reach the frame of zeros findContours treats the image as lying in.
Holes(fg, h, w) ==
    LET padded  == ((-1)..h) \X ((-1)..w)
        outside == Grow({<<-1, -1>>}, {<<-1, -1>>}, padded \ fg, {0, 2, 4, 6})
    IN Components((padded \ fg) \ outside, {0, 2, 4, 6})

\* Border following.  From `cur`, reached from `prev`, the next border pixel
\* is the first foreground neighbour met counter-clockwise after `prev`; the
\* border closes when it is about to leave `start` towards `first` again.
RECURSIVE Follow(_, _, _, _, _, _)
Follow(fg, start, first, prev, cur, acc) ==
    LET d    == DirTo(cur, prev)
        n    == CHOOSE i \in 1..8 :
                    /\ Nb(cur, d + i) \in fg
                    /\ \A j \in 1..(i - 1) : Nb(cur, d + j) \notin fg
        next == Nb(cur, d + n)
    IN IF next = start /\ cur = first
       THEN Append(acc, cur)
       ELSE Follow(fg, start, first, cur, next, Append(acc, cur))

\* The border that starts at pixel `start`, whose neighbour `zero` lies
\* outside the region: the first foreground neighbour met clockwise from
\* `zero` opens it; a pixel without neighbours is a border of one point.
Border(fg, start, zero) ==
    LET d    == DirTo(start, zero)
        hits == {i \in 0..7 : Nb(start, d + 8 - i) \in fg}
    IN IF hits = {} THEN <<start>>
       ELSE LET i0    == CHOOSE i \in hits : \A j \in hits : i <= j
                first == Nb(start, d + 8 - i0)
            IN Follow(fg, start, first, first, start, <<>>)

\* The borders of the mask: an outer border per 8-connected region, from its
\* first pixel in raster order, and a hole border per hole, from the pixel
\* left of the hole's first pixel.
Contours(fg, h, w) ==
    {Border(fg, RasterFirst(comp), <<RasterFirst(comp)[1], RasterFirst(comp)[2] - 1>>) :
        comp \in Components(fg, 0..7)}
    \cup
    {Border(fg, <<RasterFirst(b)[1], RasterFirst(b)[2] - 1>>, RasterFirst(b)) :
        b \in Holes(fg, h, w)}

\* ---- cv2.contourArea and cv2.moments of a contour (points x = col, y = row)
Prev(pts, i) == pts[IF i = 1 THEN Len(pts) ELSE i - 1]
Cross(pts, i) == Prev(pts, i)[2] * pts[i][1] - pts[i][2] * Prev(pts, i)[1]
RECURSIVE SumTo(_, _, _)
SumTo(pts, i, w) ==
    IF i = 0 THEN 0
    ELSE SumTo(pts, i - 1, w)
         + Cross(pts, i) * (CASE w = "00" -> 1
                              [] w = "10" -> Prev(pts, i)[2] + pts[i][2]
                              [] OTHER    -> Prev(pts, i)[1] + pts[i][1])
\* twice the signed area, and six times the signed first moments
A00(pts) == SumTo(pts, Len(pts), "00")
A10(pts) == SumTo(pts, Len(pts), "10")
A01(pts) == SumTo(pts, Len(pts), "01")

\* twice cv2.contourArea(contour)
Area2(pts) == Abs(A00(pts))

\* cv2.moments(pts), as the fractions m00 = n00/2, m10 = n10/6,
\* m01 = n01/6; every moment is zero for None and for a contour without area.
Moments(pts) ==
    IF pts = <<>> \/ A00(pts) = 0
    THEN [n00 |-> 0, n10 |-> 0, n01 |-> 0]
    ELSE LET sgn == IF A00(pts) > 0 THEN 1 ELSE -1
         IN [n00 |-> sgn * A00(pts),
             n10 |-> sgn * A10(pts),
             n01 |-> sgn * A01(pts)]

\* int(x / y) of Python for the float quotient of p/6 by q/2: the quotient
\* truncated towards zero (IntQuotCeil rounds it up instead)
IntQuotCeil(p, q) == (p + 3 * q - 1) \div (3 * q)
IntQuot(p, q) == IF p >= 0 THEN p \div (3 * q) ELSE -((-p) \div (3 * q))

\* lines 121-127: the first contour of the list whose area exceeds that of
\* all before it and is more than 0; <<>> stands for None.
RECURSIVE Best(_, _, _, _)
Best(cs, i, best, best_area2) ==
    IF i > Len(cs) THEN best
    ELSE IF Area2(cs[i]) > best_area2
         THEN Best(cs, i + 1, cs[i], Area2(cs[i]))
         ELSE Best(cs, i + 1, best, best_area2)

\* lines 121-130: the contour kept, and the location its moments give, or
\* the ZeroDivisionError of dividing by a zeroth moment of 0.
LocateBlob(cs) ==
    LET best == Best(cs, 1, <<>>, 0)
        m    == Moments(best)
    IN IF m.n00 = 0
       THEN [contour |-> best, exc |-> "ZeroDivisionError", location |-> <<>>]
       ELSE [contour |-> best, exc |-> "ok",
             location |-> <<IntQuot(m.n01, m.n00), IntQuot(m.n10, m.n00)>>]

\* The orders in which a set of contours can come out of findContours.
Orders(S) ==
    {f \in [1..Cardinality(S) -> S] :
        \A i, j \in 1..Cardinality(S) : f[i] = f[j] => i = j}

---------------------------------------------------------------------------
\* The locator on a stream of flow fields.
DefaultPercentile == 80
Percentiles == {0, DefaultPercentile}
\* the smoothing factors the locator is given: none, a half, all
MHBAlphas == {0, AlphaDen \div 2, AlphaDen}

\* A flow field that moves horizontally, at angle a and magnitude m, on the
\* square of side s with top-left pixel <<r, c>>, and is still elsewhere.
SquareFlow(r, c, s, m, a) ==
    LET in(p) == r <= p[1] /\ p[1] < r + s /\ c <= p[2] /\ p[2] < c + s
    IN [mag |-> Arr(FrameH, FrameW,
                    [p \in Cells(FrameH, FrameW) |-> IF in(p) THEN m * Scale ELSE 0]),
        ang |-> Arr(FrameH, FrameW,
                    [p \in Cells(FrameH, FrameW) |-> IF in(p) THEN a ELSE "0"])]
Squares ==
    {q \in (0..(FrameH - 1)) \X (0..(FrameW - 1)) \X (1..FrameH) :
        q[1] + q[3] <= FrameH /\ q[2] + q[3] <= FrameW}
Flows ==
    {SquareFlow(0, 0, 1, 0, "0")} \cup
    {SquareFlow(q[1], q[2], q[3], m, a) : q \in Squares, m \in 1..MaxMag, a \in Angles}

\* MHB.__init__(cnn_input, percentile), on frames of FrameH x FrameW
InitMHB ==
    /\ \E k \in 0..MaxClip, a \in MHBAlphas, q \in Percentiles :
          LET s == <<FrameH - 2 * k, FrameW - 2 * k>>
          IN /\ clip = k
             /\ percentile = q
             /\ hmag = Arr(s[1], s[2], [c \in Cells(s[1], s[2]) |-> Scale])
             /\ mhi = Zeros(s)
             /\ alpha = a
             /\ dtype = "float"
             /\ ctor = [shape |-> s, dtype |-> "float", alpha |-> a]
    /\ contour = <<>>
    /\ flow = [mag |-> NoArr, ang |-> NoArr]
    /\ filtered = [h |-> 0, w |-> 0, fg |-> {}]
    /\ contours = <<>> /\ location = <<>> /\ intensity = 0
    /\ fields = <<>>
    /\ prev_mhi = mhi
    /\ outcome = "none"
    /\ LoopIdle

\* MHB.compute(), reading the flow field f off the flow source.  Nothing in
\* the repository catches what compute raises, so a run ends at the first
\* call that raises.
Compute ==
    /\ Len(fields) < MaxUpdates
    /\ outcome \in {"none", "ok"}
    /\ \E f \in Flows :
       \E cropped \in {Crop(HorizontalMag(f.mag, f.ang), clip)} :
       \E r \in {MHI_update(mhi, alpha, dtype, cropped)} :
          /\ flow' = f
          /\ hmag' = cropped
          /\ fields' = Append(fields, cropped)
          /\ prev_mhi' = mhi
          /\ mhi' = r.mhi
          /\ IF r.exc # "ok"
             THEN \* line 114 raises: nothing after it runs
                  /\ outcome' = r.exc
                  /\ UNCHANGED <<contour, filtered, contours, location, intensity>>
             ELSE \E fg \in {Above(r.mhi, percentile)} :
                  \E cs \in Orders(Contours(fg, r.mhi.h, r.mhi.w)) :
                  \E b \in {LocateBlob(cs)} :
                     /\ filtered' = [h |-> r.mhi.h, w |-> r.mhi.w, fg |-> fg]
                     /\ contours' = cs
                     /\ contour' = b.contour
                     /\ outcome' = b.exc
                     /\ location' = b.location
                     /\ intensity' = IF b.exc = "ok" THEN r.mhi.v[b.location] ELSE 0
    /\ UNCHANGED <<alpha, dtype, ctor, clip, percentile, loop_vars>>

NextMHB == Compute
Spec == InitMHB /\ [][NextMHB]_vars

\* The last compute got as far as the blob search.
Searched == fields # <<>> /\ outcome \in {"ok", "ZeroDivisionError"}

\* C1: whenever the mask compute builds is all zero, compute ends in an
\* explicit NoMotionDetected failure, never in a division by a zero moment.
C1_NoMotionDetected ==
    (Searched /\ filtered.fg = {}) => outcome = "NoMotionDetected"

\* C5: the cropped field compute feeds its filter has the shape
\* (H - 2c, W - 2c), the shape the filter's state was constructed with.
C5_CroppedShape ==
    fields # <<>> =>
        /\ Shape(hmag) = <<FrameH - 2 * clip, FrameW - 2 * clip>>
        /\ Shape(hmag) = ctor.shape

\* the first contour of the list among those of the largest area
FirstLargest ==
    LET big == {i \in 1..Len(contours) :
                   \A j \in 1..Len(contours) : Area2(contours[j]) <= Area2(contours[i])}
    IN contours[CHOOSE i \in big : \A j \in big : i <= j]

\* C6: among the regions extracted from the mask compute selects the first
\* one of the largest area, and its moments give the returned location.
C6_FirstLargestSelected ==
    (Searched /\ contours # <<>>) =>
        /\ contour = FirstLargest
        /\ outcome = "ok"
        /\ 3 * Area2(contour) * location[1] <= Abs(A01(contour))
        /\ Abs(A01(contour)) < 3 * Area2(contour) * (location[1] + 1)
        /\ 3 * Area2(contour) * location[2] <= Abs(A10(contour))
        /\ Abs(A10(contour)) < 3 * Area2(contour) * (location[2] + 1)

\* C8: when the flow moves horizontally (angle 0, positive magnitude) on one
\* square that the margin leaves inside the cropped area and is still
\* elsewhere, compute returns a location within the square's bounds.
C8_LocationInSquare ==
    \A q \in Squares :
        (/\ fields # <<>>
         /\ \E m \in 1..MaxMag : flow = SquareFlow(q[1], q[2], q[3], m, "0")
         /\ clip <= q[1] /\ q[1] + q[3] <= FrameH - clip
         /\ clip <= q[2] /\ q[2] + q[3] <= FrameW - clip)
        => /\ outcome = "ok"
           /\ location[1] + clip \in q[1]..(q[1] + q[3] - 1)
           /\ location[2] + clip \in q[2]..(q[2] + q[3] - 1)

\* C9: compute fails for want of motion only when the mask has no
\* foreground cell: with at least one cell set it returns a pair.
C9_FailsOnlyOnEmptyMask ==
    (Searched /\ filtered.fg # {}) => (outcome = "ok" /\ location # <<>>)

---------------------------------------------------------------------------
\* The blob search of compute (lines 118-130) on a mask of its own.  A mask
\* is never full: no cell exceeds a percentile of the field unless another
\* cell lies below it.
Rects(h, w) ==
    {q \in (0..(h - 1)) \X (0..(h - 1)) \X (0..(w - 1)) \X (0..(w - 1)) :
        q[1] <= q[2] /\ q[3] <= q[4]}
RectCells(q) == (q[1]..q[2]) \X (q[3]..q[4])
Masks ==
    {RectCells(p) \cup RectCells(q) : p, q \in Rects(GridH, GridW)}
        \ {Cells(GridH, GridW)}

InitBlob ==
    /\ \E fg \in Masks \cup {{}} : filtered = [h |-> GridH, w |-> GridW, fg |-> fg]
    /\ clip = 0 /\ percentile = 0 /\ hmag = NoArr /\ contour = <<>>
    /\ flow = [mag |-> NoArr, ang |-> NoArr]
    /\ contours = <<>> /\ location = <<>> /\ intensity = 0
    /\ MHIIdle
    /\ LoopIdle

\* lines 118-130 of compute, on the mask `filtered`
Locate ==
    /\ outcome = "none"
    /\ \E cs \in Orders(Contours(filtered.fg, filtered.h, filtered.w)) :
       \E b \in {LocateBlob(cs)} :
          /\ contours' = cs
          /\ contour' = b.contour
          /\ outcome' = b.exc
          /\ location' = b.location
    /\ UNCHANGED <<mhi, alpha, dtype, ctor, fields, prev_mhi, loop_vars,
                   clip, percentile, hmag, flow, filtered, intensity>>

NextBlob == Locate
SpecBlob == InitBlob /\ [][NextBlob]_vars

\* C7 as stated: for a mask holding one filled rectangle the location is
\* the rectangle's geometric centre exactly, whatever its place and size.
C7_AsStated ==
    outcome # "none" =>
        \A q \in Rects(GridH, GridW) :
            filtered.fg = RectCells(q) =>
                /\ outcome = "ok"
                /\ 2 * location[1] = q[1] + q[2]
                /\ 2 * location[2] = q[3] + q[4]

\* C7 amended: for a filled rectangle at least two pixels wide and high the
\* location is the centre with each coordinate rounded down, so the centre
\* itself exactly when both sides are odd; for a rectangle one pixel wide or
\* high the contour has no area and the search ends in ZeroDivisionError.
C7_RectangleCentre ==
    outcome # "none" =>
        \A q \in Rects(GridH, GridW) :
            filtered.fg = RectCells(q) =>
                IF q[1] < q[2] /\ q[3] < q[4]
                THEN /\ outcome = "ok"
                     /\ location = <<(q[1] + q[2]) \div 2, (q[3] + q[4]) \div 2>>
                     /\ ((q[1] + q[2]) % 2 = 0 /\ (q[3] + q[4]) % 2 = 0
                            => /\ 2 * location[1] = q[1] + q[2]
                               /\ 2 * location[2] = q[3] + q[4])
                ELSE outcome = "ZeroDivisionError" /\ location = <<>>

\* a rectangle of three rows and four columns: its centre row is exact, its
\* centre column is rounded down
C7_Witness ==
    /\ outcome = "ok"
    /\ filtered.fg = RectCells(<<1, 3, 0, 3>>)
    /\ location = <<2, 1>>

---------------------------------------------------------------------------
\* The main loop of finger_people.
sticky_size == 1

\* dataset.class_ids, inverted
id_to_class == [i \in 0..4 |->
    CASE i = 0 -> "stand" [] i = 1 -> "walk" [] i = 2 -> "run"
      [] i = 3 -> "jump" [] OTHER -> "kick"]

\* lines 46-47: a predicted 'walk' is treated as 'run' (RenameKept leaves
\* the label as predicted)
RenameKept(label) == label
Rename(label) == IF label = "walk" THEN "run" ELSE label

\* lines 28-30: the state the loop starts in
InitLoop ==
    /\ action = "None"
    /\ prev_label = "None"
    /\ sticky_i = <<>>
    /\ enabled = TRUE
    /\ loop_pc = "running"
    /\ preds = <<>>
    /\ done = <<>>
    /\ MHIIdle
    /\ MHBIdle

\* cap.is_opened() is false, or cap.read() returns no frame: the loop ends
EndOfStream ==
    /\ loop_pc = "running"
    /\ loop_pc' = "stopped"
    /\ UNCHANGED <<action, prev_label, sticky_i, enabled, preds, done, mhi_vars, mhb_vars>>

\* One pass of the loop body on a frame the model classifies as class_id,
\* with `key` pressed at the end of the pass.
Frame ==
    /\ loop_pc = "running"
    /\ Len(preds) < MaxFrames
    /\ \E class_id \in 0..4, key \in {"q", "g", "other"} :
          LET class_label == Rename(id_to_class[class_id])
              \* lines 50-51
              s0 == IF class_label # prev_label THEN <<0>> ELSE sticky_i
              i0 == s0[1]
          IN IF s0 = <<>>
             THEN \* line 52 reads a local that was never assigned
                  /\ loop_pc' = "UnboundLocalError"
                  /\ UNCHANGED <<action, prev_label, sticky_i, enabled, preds, done>>
             ELSE /\ sticky_i' = IF i0 < sticky_size THEN <<i0 + 1>> ELSE <<i0>>
                  /\ action' = IF i0 < sticky_size THEN action ELSE class_label
                  /\ prev_label' = class_label
                  /\ preds' = Append(preds, class_id)
                  /\ done' = Append(done, action')
                  /\ enabled' = IF key = "g" THEN ~enabled ELSE enabled
                  /\ loop_pc' = IF key = "q" THEN "stopped" ELSE "running"
    /\ UNCHANGED <<mhi_vars, mhb_vars>>

NextLoop == Frame \/ EndOfStream
SpecLoop == InitLoop /\ [][NextLoop]_vars

\* C10: on every processed frame t the action passed to game_input.do is the
\* label of frame t when it equals the label of frame t-1, and otherwise the
\* action of frame t-1 (None before any was set); it is never 'walk', and
\* sticky_i is never read before it is assigned.
LabelOf(t) == IF id_to_class[preds[t]] = "walk" THEN "run" ELSE id_to_class[preds[t]]
C10_StickyAction ==
    /\ loop_pc # "UnboundLocalError"
    /\ Len(done) = Len(preds)
    /\ \A t \in 1..Len(done) :
          /\ done[t] # "walk"
          /\ done[t] = IF t > 1 /\ LabelOf(t) = LabelOf(t - 1) THEN LabelOf(t)
                       ELSE IF t = 1 THEN "None" ELSE done[t - 1]
    /\ (done # <<>> => action = done[Len(done)])

\* a walk/run pair sets the action to run, a later jump pair changes it
C10_Witness ==
    /\ Len(done) = 4
    /\ preds = <<1, 2, 3, 3>>
    /\ done = <<"None", "run", "run", "jump">>

=============================================================================
